---- MODULE Spec2Model ----
(***************************************************************************)
(* Model of proxy/http/server/reverse.py: the ReverseProxy web-server       *)
(* plugin.  One handler instance (one client connection) is modelled.       *)
(* The handlers run on a single-threaded event loop, so a handler call is   *)
(* never interleaved with another one; handle_request is split into its     *)
(* plugin-callback steps (pc), during which no other handler is enabled.    *)
(***************************************************************************)
EXTENDS Naturals, Sequences, FiniteSets, TLC

\* ---------------------------------------------------------------- bounds
NumPlugins == 2
MaxRequests == 2
MaxChunks == 2
MaxCloses == 2
MaxLogs == 1
MaxTables == 1

\* ------------------------------------------------------ program constants
DEFAULT_HTTP_PORT == 80
DEFAULT_HTTPS_PORT == 443
HTTPS_PROTO == "https"

\* Optional values: None is the empty sequence, Some(x) a one-element one.
None == <<>>
Some(x) == <<x>>

\* ------------------------------------------------------------------ Url
\* proxy.http.Url as used here: scheme, hostname, port, remainder.
\* An absent port is 0 and an absent hostname is "" (both falsy, as None is).
Url(s, h, p, r) == [scheme |-> s, hostname |-> h, port |-> p, remainder |-> r]

\* Url.from_bytes: the candidate is raw bytes <<scheme, host, port, rest>>.
FromBytes(raw) == Url(raw[1], raw[2], raw[3], raw[4])

\* Backends a plugin's handle_route may return.
Targets ==
    { Url("http", "h1", 0, <<"r2">>),
      Url("https", "h2", 8443, <<"r3">>),
      Url("", "", 0, <<"rel">>) }

\* --------------------------------------------------------------- routes
\* A route entry is a tuple (pattern, candidates), a bare pattern (str),
\* or something else (invalid).
TupleRoute(p, cs) == [type |-> "tuple", pat |-> p, cands |-> cs]
StrRoute(p) == [type |-> "str", pat |-> p, cands |-> <<>>]
BadRoute == [type |-> "other", pat |-> <<>>, cands |-> <<>>]

\* What plugin.routes() may return, per plugin.
RouteLists ==
    { <<TupleRoute(<<"api">>, << <<"http", "h1", 8080, <<"r1">> >>,
                                 <<"https", "h2", 0, <<"r4">> >> >>)>>,
      <<StrRoute(<<"api", "x">>),
        TupleRoute(<<"api">>, << <<"http", "h1", 8080, <<"r1">> >> >>)>>,
      <<StrRoute(<<"web">>), BadRoute>> }

\* Request paths and requests (path plus the rest of the message).
Paths == { <<"api", "x">>, <<"web">> }
Requests == [path : Paths, rest : {"a"}]
\* The request a before_routing hook substitutes for the one it was given,
\* when it substitutes one: another path and another rest of the message.
Replacement(req) ==
    [path |-> CHOOSE p \in Paths : p # req.path, rest |-> "b"]

\* HttpParser.build of a request: request line first, then the rest.
Build(request) == <<"REQ", request.path, request.rest>>

\* pattern.match(path): the pattern must match at the start of the path.
MatchesAlways(pat, path) == TRUE
Matches(pat, path) ==
    /\ Len(pat) <= Len(path)
    /\ \A k \in 1..Len(pat) : pat[k] = path[k]

\* ------------------------------------------------------------ exceptions
NoExc == [type |-> "none", kind |-> "none", host |-> "", port |-> 0]
Raise(t, k) == [type |-> t, kind |-> k, host |-> "", port |-> 0]
\* 'Connection refused by upstream server {0}:{1}'.format(hostname, port)
RefusedExc(h, p) ==
    [type |-> "HttpProtocolException", kind |-> "UpstreamConnectionRefused",
     host |-> h, port |-> p]

\* ------------------------------------------------- handle_request helpers
\* `if r is None: raise HttpProtocolException(...)` in the before_routing loop.
BeforeRoutingNeverAborts(r) == FALSE
BeforeRoutingAborts(r) == r = None

\* The inner loop over plugin.routes(): the first entry, from index j on,
\* that ends the loop, either by matching (break) or by being invalid (raise).
\* at = 0 means the loop ran to its end without a match.
RECURSIVE ScanRoutesOn(_, _, _)
ScanRoutesOn(routes, path, j) ==
    IF j > Len(routes) THEN [hit |-> "nomatch", at |-> 0]
    ELSE LET e == routes[j]
             rest == ScanRoutesOn(routes, path, j + 1)
         IN IF e.type \in {"tuple", "str"}
            THEN IF Matches(e.pat, path) /\ rest.hit = "nomatch"
                 THEN [hit |-> e.type, at |-> j]
                 ELSE rest
            ELSE [hit |-> "invalid", at |-> j]
RECURSIVE ScanRoutes(_, _, _)
ScanRoutes(routes, path, j) ==
    IF j > Len(routes) THEN [hit |-> "nomatch", at |-> 0]
    ELSE LET e == routes[j]
         IN IF e.type \in {"tuple", "str"}
            THEN IF Matches(e.pat, path) THEN [hit |-> e.type, at |-> j]
                 ELSE ScanRoutes(routes, path, j + 1)
            ELSE [hit |-> "invalid", at |-> j]

\* The entries the inner loop evaluated: 1..at, or all of them without a hit.
Evaluated(routes, scan) ==
    IF scan.hit = "nomatch" THEN Len(routes) ELSE scan.at

\* `assert self.choice and self.choice.hostname`
AssertChoice(c) == c # None /\ c[1].hostname # ""

\* port = self.choice.port or DEFAULT_HTTP_PORT
\*        if self.choice.scheme == b'http' else DEFAULT_HTTPS_PORT
\* The conditional expression binds weaker than `or`.
ResolvePort(u) ==
    IF u.scheme = "http"
    THEN (IF u.port # 0 THEN u.port ELSE DEFAULT_HTTP_PORT)
    ELSE DEFAULT_HTTPS_PORT

\* `if self.choice.scheme == HTTPS_PROTO:` guards upstream.wrap
NeedsWrap(u) == u.scheme = HTTPS_PROTO

\* What upstream.connect() and upstream.wrap() can do for a target.
Outcomes(u) == {"ok", "refused"} \cup (IF NeedsWrap(u) THEN {"tls_error"} ELSE {})

\* The statements of the try block that run, in order, for an outcome:
\* connect raises on "refused", wrap raises on "tls_error".
TryStepsQueueFirst(u, outcome) ==
    IF outcome = "refused" THEN <<"connect">>
    ELSE IF NeedsWrap(u)
         THEN IF outcome = "tls_error" THEN <<"connect", "wrap">>
              ELSE <<"rewrite", "queue", "connect", "wrap">>
         ELSE <<"rewrite", "queue", "connect">>
TryStepsNoRewrite(u, outcome) ==
    IF outcome = "refused" THEN <<"connect">>
    ELSE IF NeedsWrap(u)
         THEN IF outcome = "tls_error" THEN <<"connect", "wrap">>
              ELSE <<"connect", "wrap", "queue">>
         ELSE <<"connect", "queue">>
TrySteps(u, outcome) ==
    IF outcome = "refused" THEN <<"connect">>
    ELSE IF NeedsWrap(u)
         THEN IF outcome = "tls_error" THEN <<"connect", "wrap">>
              ELSE <<"connect", "wrap", "rewrite", "queue">>
         ELSE <<"connect", "rewrite", "queue">>

\* TcpServerConnection(host, port), as initialize_upstream creates it.
NewConn(h, p) ==
    [host |-> h, port |-> p, log |-> <<>>, sni |-> "", buf |-> <<>>,
     connected |-> FALSE, closed |-> FALSE]

\* A connection holds a socket from a successful connect() until close().
IsOpen(c) == c.connected /\ ~c.closed

\* One statement of the try block applied to the request and the connection.
ApplyStep(st, step, u) ==
    IF step = "connect" THEN
        [st EXCEPT !.conn.log = Append(@, "connect"),
                   !.conn.connected = (st.outcome # "refused")]
    ELSE IF step = "wrap" THEN
        [st EXCEPT !.conn.log = Append(@, "wrap"), !.conn.sni = u.hostname]
    ELSE IF step = "rewrite" THEN
        [st EXCEPT !.req.path = u.remainder]
    ELSE
        [st EXCEPT !.conn.log = Append(@, "queue"),
                   !.conn.buf = Append(@, Build(st.req))]

RECURSIVE ApplySteps(_, _, _)
ApplySteps(st, steps, u) ==
    IF steps = <<>> THEN st
    ELSE ApplySteps(ApplyStep(st, Head(steps), u), Tail(steps), u)

\* The exception leaving the try block.
TryExcUncaught(u, port, outcome) ==
    IF outcome = "refused" THEN Raise("ConnectionRefusedError", "UpstreamConnectionRefused")
    ELSE IF outcome = "tls_error" THEN Raise("SSLError", "TlsHandshakeFailure")
    ELSE NoExc
TryExc(u, port, outcome) ==
    IF outcome = "refused" THEN RefusedExc(u.hostname, port)
    ELSE IF outcome = "tls_error" THEN Raise("SSLError", "TlsHandshakeFailure")
    ELSE NoExc

\* ----------------------------------------------- handle_upstream_data
\* Chunks of upstream bytes: a whole response (status line and body), its
\* status line alone, and a piece of body.
Chunks == { <<"S200", "B">>, <<"S200">>, <<"B">> }

\* HttpParser(RESPONSE_PARSER).parse(raw) on a fresh parser: the status code
\* of a leading status line (0 while none was seen) and the body bytes.
Parse(chunk) ==
    IF chunk # <<>> /\ Head(chunk) = "S200"
    THEN [code |-> 200, body |-> Tail(chunk)]
    ELSE [code |-> 0, body |-> chunk]

\* response.build_response(): a status line for the code, then the body.
StatusLine(code) ==
    IF code = 200 THEN "S200" ELSE IF code = 404 THEN "S404" ELSE "S-1"
BuildResponse(response) == <<StatusLine(response.code)>> \o response.body

\* What plugin.after_handling_upstream_data(response) may return.
AfterResult(response, ret) ==
    IF ret = "none" THEN None
    ELSE IF ret = "same" THEN Some(response)
    ELSE Some([code |-> 404, body |-> Append(response.body, "X")])

\* What the plugins return, one entry per plugin; the hooks after one that
\* returns None are not called, so their entries are fixed to "none".
HookReturns ==
    { rets \in [1..NumPlugins -> {"none", "same", "other"}] :
        \A i \in 1..(NumPlugins - 1) : rets[i] = "none" => rets[i + 1] = "none" }

\* `self.client.queue(raw)` when a hook returns None.
PassThroughRebuilt(chunk, response) == BuildResponse(response)
PassThroughItem(chunk, response) == chunk

\* `self.client.queue(memoryview(response.build_response()))` after the loop.
RebuiltRaw(chunk, response) == chunk
RebuiltItem(chunk, response) == BuildResponse(response)

\* self.client.queue(item): the item goes to the end of the client's queue.
ClientQueueFront(q, item) == <<item>> \o q
ClientQueue(q, item) == Append(q, item)

\* The loop over self.plugins from plugin i on: the calls made and the item
\* queued to the client.  rets[i] says what plugin i returns if it is called.
RECURSIVE AfterChain(_, _, _, _, _)
AfterChain(chunk, response, rets, i, calls) ==
    IF i > Len(rets)
    THEN [calls |-> calls, item |-> RebuiltItem(chunk, response)]
    ELSE LET r == AfterResult(response, rets[i])
             log == Append(calls, <<i, response, r>>)
         IN IF r = None
            THEN [calls |-> log, item |-> PassThroughItem(chunk, response)]
            ELSE AfterChain(chunk, r[1], rets, i + 1, log)

\* ------------------------------------------------------------ routes()
\* What plugin.regexes() may return, per plugin.
RegexLists == { <<>>, <<"api">>, <<"api", "web">>, <<"web", "api">> }

\* The two appends of the inner loop of routes() for one pattern.
EntriesForHttpOnly(route) == << <<"HTTP", route>> >>
EntriesFor(route) == << <<"HTTP", route>>, <<"HTTPS", route>> >>

\* The inner loop of routes() over one plugin's regexes(), from index j on.
RECURSIVE PluginEntries(_, _)
PluginEntries(regexes, j) ==
    IF j > Len(regexes) THEN <<>>
    ELSE EntriesFor(regexes[j]) \o PluginEntries(regexes, j + 1)

\* The outer loop of routes() over self.plugins, from plugin i on; rx[i] is
\* what plugin i's regexes() returns.
RECURSIVE RouteTable(_, _)
RouteTable(rx, i) ==
    IF i > Len(rx) THEN <<>>
    ELSE PluginEntries(rx[i], 1) \o RouteTable(rx, i + 1)

\* -------------------------------------------------------- on_access_log
\* The context dictionaries the server passes to on_access_log.
Contexts ==
    { [request_path |-> <<"p">>],
      [request_path |-> <<"p">>, upstream_proxy_pass |-> <<"old">>] }

\* str(url): scheme, host, port when there is one, and the remainder.
UrlStr(u) ==
    <<u.scheme, "://", u.hostname>>
        \o (IF u.port # 0 THEN <<":", u.port>> ELSE <<>>) \o u.remainder

\* `str(self.choice) if self.choice else None`
ProxyPass(c) == IF c # None THEN UrlStr(c[1]) ELSE None

\* context.update({'upstream_proxy_pass': v})
ContextUpdate(ctx, v) ==
    [k \in DOMAIN ctx \cup {"upstream_proxy_pass"} |->
        IF k = "upstream_proxy_pass" THEN v ELSE ctx[k]]

VARIABLES
    plugins,    \* self.plugins: each plugin's routes()
    choice,     \* self.choice
    upstream,   \* self.upstream: None or the TcpServerConnection
    orphans,    \* open connections the handler created and no longer refers to
    closes,     \* upstream.close() calls made by the handler
    clientQ,    \* what was passed to self.client.queue
    pc,         \* position inside handle_request ("idle" between handlers)
    request,    \* the local `request` of handle_request
    idx,        \* the plugin the current loop is at
    op,         \* the handler called last
    exc,        \* the exception that ended the last handler call
    pre,        \* the handler's state when the last handler was entered
    routed,     \* the request the before_routing chain handed to route matching
    io,         \* what connect()/wrap() did in this handle_request
    brCalls,    \* before_routing calls of this handle_request: <<plugin, arg, result>>
    hrCalls,    \* handle_route calls: <<plugin, request, pattern, result>>
    scanned,    \* route entries evaluated: <<plugin, entry index>>
    matched,    \* matches of this handle_request: <<plugin, entry index, target>>
    port,       \* the local `port` of handle_request
    ahCalls,    \* after_handling_upstream_data calls of the last chunk
    raw,        \* the chunk of the last handle_upstream_data
    rawLog,     \* every chunk handed to handle_upstream_data, in order
    logged,     \* the context the last on_access_log emitted
    alCalls,    \* plugin on_access_log calls made by the last on_access_log
    regexes,    \* what the plugins' regexes() returned to the last routes()
    table,      \* what the last routes() returned
    counts      \* handler calls and connections created so far

vars == <<plugins, choice, upstream, orphans, closes, clientQ, pc, request, idx, op, exc,
          pre, routed, io, brCalls, hrCalls, scanned, matched, port, ahCalls, raw, rawLog,
          logged, alCalls, regexes, table, counts>>

handlerState == <<choice, upstream, orphans, closes, clientQ>>
chunkLocals == <<ahCalls, raw>>
logState == <<logged, alCalls>>
tableState == <<regexes, table>>

Init ==
    /\ plugins \in [1..NumPlugins -> RouteLists]
    /\ choice = None
    /\ upstream = None
    /\ orphans = 0
    /\ closes = 0
    /\ clientQ = <<>>
    /\ pc = "idle"
    /\ request = None
    /\ idx = 0
    /\ op = "init"
    /\ exc = NoExc
    /\ pre = [choice |-> None, upstream |-> None, request |-> None, conns |-> 0,
              closes |-> 0, orphans |-> 0, clientQ |-> <<>>]
    /\ routed = None
    /\ io = "none"
    /\ brCalls = <<>>
    /\ hrCalls = <<>>
    /\ scanned = <<>>
    /\ matched = <<>>
    /\ port = 0
    /\ ahCalls = <<>>
    /\ raw = <<>>
    /\ rawLog = <<>>
    /\ logged = None
    /\ alCalls = <<>>
    /\ regexes = <<>>
    /\ table = <<>>
    /\ counts = [req |-> 0, chunk |-> 0, close |-> 0, conns |-> 0, log |-> 0,
                 table |-> 0]

\* ------------------------------------------------------- handle_request
\* Entry: the event loop hands a parsed request to the handler.
handle_request(req) ==
    /\ pc = "idle"
    /\ counts.close = 0
    /\ counts.req < MaxRequests
    /\ counts' = [counts EXCEPT !.req = @ + 1]
    /\ op' = "handle_request"
    /\ request' = Some(req)
    /\ pre' = [choice |-> choice, upstream |-> upstream, request |-> Some(req),
               conns |-> counts.conns, closes |-> closes, orphans |-> orphans,
               clientQ |-> clientQ]
    /\ routed' = None
    /\ io' = "none"
    /\ brCalls' = <<>>
    /\ hrCalls' = <<>>
    /\ scanned' = <<>>
    /\ matched' = <<>>
    /\ port' = 0
    /\ exc' = NoExc
    /\ idx' = 1
    /\ pc' = "before_routing"
    /\ UNCHANGED <<plugins, handlerState, chunkLocals, rawLog, logState, tableState>>

\* What plugin.before_routing(req) may return: None, req, or another request.
BeforeRoutingResult(req, ret) ==
    IF ret = "none" THEN None
    ELSE IF ret = "same" THEN Some(req)
    ELSE Some(Replacement(req))

\* One iteration of `for plugin in self.plugins: r = plugin.before_routing(request)`;
\* ret says what the plugin returns.
before_routing(ret) ==
    /\ pc = "before_routing"
    /\ LET r == BeforeRoutingResult(request[1], ret) IN
       /\ brCalls' = Append(brCalls, <<idx, request[1], r>>)
       /\ IF BeforeRoutingAborts(r)
          THEN /\ exc' = Raise("HttpProtocolException", "RoutingAbort")
               /\ pc' = "idle"
               /\ UNCHANGED <<request, idx, routed>>
          ELSE /\ request' = r
               /\ exc' = exc
               /\ IF idx < NumPlugins
                  THEN idx' = idx + 1 /\ pc' = pc /\ routed' = routed
                  ELSE idx' = 1 /\ pc' = "routes" /\ routed' = r
    /\ UNCHANGED <<plugins, handlerState, op, pre, io, hrCalls, scanned, matched,
                   port, chunkLocals, rawLog, logState,
                   tableState, counts>>

\* What a matched entry resolves to: Url.from_bytes(random.choice(route[1]))
\* for a tuple, whatever plugin.handle_route returns for a bare pattern.
RouteTargets(e) ==
    IF e.type = "tuple"
    THEN { FromBytes(e.cands[k]) : k \in 1..Len(e.cands) }
    ELSE Targets

\* Where the outer loop goes after plugin i, whose scan ended with `hit`:
\* a `break` leaves the inner loop only, so the next plugin is always visited.
AfterPluginStopAtMatch(i, hit) ==
    IF i < NumPlugins /\ hit = "nomatch"
    THEN [pc |-> "routes", idx |-> i + 1]
    ELSE [pc |-> "connect", idx |-> 1]
AfterPlugin(i, hit) ==
    IF i < NumPlugins
    THEN [pc |-> "routes", idx |-> i + 1]
    ELSE [pc |-> "connect", idx |-> 1]

\* One iteration of the outer loop of the route scan: plugin idx's routes()
\* are scanned up to the first match or invalid entry.
routes ==
    /\ pc = "routes"
    /\ LET rs == plugins[idx]
           scan == ScanRoutes(rs, request[1].path, 1)
           after == AfterPlugin(idx, scan.hit)
       IN /\ scanned' = scanned \o [k \in 1..Evaluated(rs, scan) |-> <<idx, k>>]
          /\ IF scan.hit = "invalid"
             THEN /\ exc' = Raise("ValueError", "InvalidRouteEntry")
                  /\ pc' = "idle"
                  /\ UNCHANGED <<choice, hrCalls, matched, idx>>
             ELSE IF scan.hit = "nomatch"
             THEN /\ idx' = after.idx
                  /\ pc' = after.pc
                  /\ UNCHANGED <<choice, hrCalls, matched, exc>>
             ELSE \E target \in RouteTargets(rs[scan.at]) :
                  /\ choice' = Some(target)
                  /\ matched' = Append(matched, <<idx, scan.at, target>>)
                  /\ hrCalls' = IF scan.hit = "str"
                                THEN Append(hrCalls,
                                            <<idx, request[1], rs[scan.at].pat, target>>)
                                ELSE hrCalls
                  /\ idx' = after.idx
                  /\ pc' = after.pc
                  /\ exc' = exc
    /\ UNCHANGED <<plugins, upstream, orphans, closes, clientQ, request, op, pre,
                   routed, io, brCalls, port, chunkLocals, rawLog, logState,
                   tableState, counts>>

\* From the assert to the end of handle_request: port resolution,
\* initialize_upstream and the try block.  outcome is what upstream.connect()
\* and upstream.wrap() do; when the assert fails neither is called.
connect(outcome) ==
    /\ pc = "connect"
    /\ pc' = "idle"
    /\ IF ~AssertChoice(choice)
       THEN /\ outcome = "ok"
            /\ exc' = Raise("AssertionError",
                            IF choice = None THEN "NoRouteMatched" ELSE "NoHostname")
            /\ UNCHANGED <<upstream, orphans, request, port, counts, io>>
       ELSE LET u == choice[1]
                p == ResolvePort(u)
                st == ApplySteps([req |-> request[1], conn |-> NewConn(u.hostname, p),
                                  outcome |-> outcome],
                                 TrySteps(u, outcome), u)
            IN /\ outcome \in Outcomes(u)
               /\ io' = outcome
               /\ port' = p
               /\ counts' = [counts EXCEPT !.conns = @ + 1]
               /\ orphans' = IF upstream # None /\ IsOpen(upstream[1])
                             THEN orphans + 1 ELSE orphans
               /\ upstream' = Some(st.conn)
               /\ request' = Some(st.req)
               /\ exc' = TryExc(u, p, outcome)
    /\ UNCHANGED <<plugins, choice, closes, clientQ, idx, op, pre, routed, brCalls,
                   hrCalls, scanned, matched, chunkLocals, rawLog, logState,
                   tableState>>

\* ------------------------------------------- on_client_connection_close
\* `if self.upstream and not self.upstream.closed:`
CloseGuardAlways(up) == up # None
CloseGuard(up) == up # None /\ ~up[1].closed

on_client_connection_close ==
    /\ pc = "idle"
    /\ counts.close < MaxCloses
    /\ counts' = [counts EXCEPT !.close = @ + 1]
    /\ op' = "on_client_connection_close"
    /\ exc' = NoExc
    /\ pre' = [choice |-> choice, upstream |-> upstream, request |-> None,
               conns |-> counts.conns, closes |-> closes, orphans |-> orphans,
               clientQ |-> clientQ]
    /\ IF CloseGuard(upstream)
       THEN /\ upstream' = None
            /\ closes' = closes + 1
       ELSE UNCHANGED <<upstream, closes>>
    /\ UNCHANGED <<plugins, choice, orphans, clientQ, pc, request, idx, routed, io,
                   brCalls, hrCalls, scanned, matched, port, chunkLocals, rawLog,
                   logState, tableState>>

\* The upstream connection is closed by someone else than this handler
\* (the `closed` flag read by on_client_connection_close is then already set).
upstream_closed ==
    /\ pc = "idle"
    /\ upstream # None
    /\ ~upstream[1].closed
    /\ upstream' = Some([upstream[1] EXCEPT !.closed = TRUE,
                                            !.log = Append(@, "close")])
    /\ op' = "upstream_closed"
    /\ UNCHANGED <<plugins, choice, orphans, closes, clientQ, pc, request, idx, exc,
                   pre, routed, io, brCalls, hrCalls, scanned, matched, port,
                   chunkLocals, rawLog, logState,
                   tableState, counts>>

\* -------------------------------------------------- handle_upstream_data
\* The event loop delivers a chunk read from the upstream connection.  The
\* locals of the last handle_request are gone by then.
handle_upstream_data(chunk, rets) ==
    /\ pc = "idle"
    /\ upstream # None
    /\ counts.close = 0
    /\ counts.chunk < MaxChunks
    /\ counts' = [counts EXCEPT !.chunk = @ + 1]
    /\ op' = "handle_upstream_data"
    /\ exc' = NoExc
    /\ pre' = [choice |-> choice, upstream |-> upstream, request |-> None,
               conns |-> counts.conns, closes |-> closes, orphans |-> orphans,
               clientQ |-> clientQ]
    /\ raw' = chunk
    /\ rawLog' = Append(rawLog, chunk)
    /\ LET out == AfterChain(chunk, Parse(chunk), rets, 1, <<>>)
       IN /\ ahCalls' = out.calls
          /\ clientQ' = ClientQueue(clientQ, out.item)
    /\ request' = None /\ routed' = None /\ io' = "none" /\ idx' = 0 /\ port' = 0
    /\ brCalls' = <<>> /\ hrCalls' = <<>> /\ scanned' = <<>> /\ matched' = <<>>
    /\ UNCHANGED <<plugins, choice, upstream, orphans, closes, pc, logState,
                   tableState>>

\* -------------------------------------------------------- on_access_log
\* The server asks the handler to log an exchange; ctx is the context it
\* passes.  No plugin hook is called, the updated context is emitted and
\* None is returned.
on_access_log(ctx) ==
    /\ pc = "idle"
    /\ counts.log < MaxLogs
    /\ counts' = [counts EXCEPT !.log = @ + 1]
    /\ op' = "on_access_log"
    /\ exc' = NoExc
    /\ alCalls' = <<>>
    /\ logged' = Some(ContextUpdate(ctx, ProxyPass(choice)))
    /\ UNCHANGED <<plugins, handlerState, pc, request, idx, pre, routed, io, brCalls,
                   hrCalls, scanned, matched, port, chunkLocals, rawLog, tableState>>

\* ------------------------------------------------------------- routes()
\* The server asks for the handler's route table; rx is what the plugins'
\* regexes() return.
routes_table(rx) ==
    /\ pc = "idle"
    /\ counts.table < MaxTables
    /\ counts' = [counts EXCEPT !.table = @ + 1]
    /\ op' = "routes"
    /\ exc' = NoExc
    /\ regexes' = rx
    /\ table' = RouteTable(rx, 1)
    /\ UNCHANGED <<plugins, handlerState, pc, request, idx, pre, routed, io, brCalls,
                   hrCalls, scanned, matched, port, chunkLocals, rawLog, logState>>

\* The first request of a client connection.
first_request(req) == counts.req = 0 /\ handle_request(req)

Next ==
    \/ \E req \in Requests : handle_request(req)
    \/ \E r \in {"none", "same", "other"} : before_routing(r)
    \/ routes
    \/ \E outcome \in {"ok", "refused", "tls_error"} : connect(outcome)
    \/ on_client_connection_close
    \/ upstream_closed

\* The request and teardown side of one client connection.
Spec == Init /\ [][Next]_vars

\* The response pipeline: one request sets the upstream connection up, then
\* chunks arrive from it.  handle_upstream_data reads self.plugins and
\* self.client only, and no other handler touches the client's queue.
NextData ==
    \/ \E req \in Requests : first_request(req)
    \/ \E r \in {"none", "same", "other"} : before_routing(r)
    \/ routes
    \/ \E outcome \in {"ok", "refused", "tls_error"} : connect(outcome)
    \/ \E chunk \in Chunks, rets \in HookReturns : handle_upstream_data(chunk, rets)

SpecData == Init /\ [][NextData]_vars

\* Access logging: requests on one client connection, and the log calls.
NextLog ==
    \/ \E req \in Requests : handle_request(req)
    \/ \E r \in {"none", "same", "other"} : before_routing(r)
    \/ routes
    \/ \E outcome \in {"ok", "refused", "tls_error"} : connect(outcome)
    \/ \E ctx \in Contexts : on_access_log(ctx)

SpecLog == Init /\ [][NextLog]_vars

\* The route table: routes() is a function of the plugins' regexes() alone.
NextRoutes == \E rx \in [1..NumPlugins -> RegexLists] : routes_table(rx)

SpecRoutes == Init /\ [][NextRoutes]_vars

\* ======================================================================
\* Properties.  The helpers below restate routing from the configuration,
\* without the operators the actions use.
\* ======================================================================
ErrorKinds == {"RoutingAbort", "NoRouteMatched", "UpstreamConnectionRefused",
               "TlsHandshakeFailure", "InvalidRouteEntry"}

\* handle_request has returned or raised, and nothing happened since.
HandleRequestDone == op = "handle_request" /\ pc = "idle"

\* Route matching of the current handle_request ran to its end.
RouteMatchingDone ==
    /\ op = "handle_request"
    /\ routed # None
    /\ pc \in {"connect", "idle"}
    /\ exc.kind # "InvalidRouteEntry"

\* This handle_request created an upstream connection.
CreatedUpstream == counts.conns # pre.conns

IsValidEntry(e) == e.type \in {"tuple", "str"}
PatternMatches(e, path) ==
    /\ IsValidEntry(e)
    /\ Len(e.pat) <= Len(path)
    /\ SubSeq(path, 1, Len(e.pat)) = e.pat
\* The longest route list of the configuration.
MaxRoutes ==
    CHOOSE n \in 0..8 :
        /\ \A i \in 1..NumPlugins : Len(plugins[i]) <= n
        /\ \E k \in 1..NumPlugins : Len(plugins[k]) = n
MatchingEntries(path) ==
    { ij \in (1..NumPlugins) \X (1..MaxRoutes) :
        /\ ij[2] <= Len(plugins[ij[1]])
        /\ PatternMatches(plugins[ij[1]][ij[2]], path) }
MatchingPlugins(path) == { ij[1] : ij \in MatchingEntries(path) }
FirstMatchOf(i, path) ==
    CHOOSE j \in 1..MaxRoutes : /\ <<i, j>> \in MatchingEntries(path)
                        /\ \A k \in 1..(j - 1) : <<i, k>> \notin MatchingEntries(path)
LastPlugin(S) == CHOOSE i \in S : \A k \in S : k <= i
\* What an entry can resolve to: a member of its candidate list, parsed, or
\* any Url handle_route returns.
Resolutions(e) ==
    IF e.type = "tuple"
    THEN { [scheme |-> e.cands[k][1], hostname |-> e.cands[k][2],
            port |-> e.cands[k][3], remainder |-> e.cands[k][4]] :
           k \in DOMAIN e.cands }
    ELSE Targets
InSeq(x, sq) == \E k \in DOMAIN sq : sq[k] = x

\* C1: a handle_request whose (post-hook) path matches no route entry of any
\* plugin fails with NoRouteMatched and creates no upstream connection, on a
\* fresh connection and on one whose earlier request resolved a target.
C1_NoRouteNoUpstream ==
    (HandleRequestDone /\ RouteMatchingDone /\ MatchingEntries(routed[1].path) = {})
        => /\ exc.kind = "NoRouteMatched"
           /\ ~CreatedUpstream
           /\ upstream = pre.upstream

\* C2: when entries of two or more plugins match, the target chosen by route
\* matching is the resolution of the last matching plugin's match.
C2_LastPluginWins ==
    (RouteMatchingDone /\ Cardinality(MatchingPlugins(routed[1].path)) >= 2)
        => LET path == routed[1].path
               i == LastPlugin(MatchingPlugins(path))
               j == FirstMatchOf(i, path)
           IN /\ choice # None
              /\ matched # <<>>
              /\ matched[Len(matched)] = <<i, j, choice[1]>>
              /\ choice[1] \in Resolutions(plugins[i][j])
              /\ Len(matched) = Cardinality(MatchingPlugins(path))

C2_Witness ==
    /\ HandleRequestDone /\ RouteMatchingDone
    /\ Cardinality(MatchingPlugins(routed[1].path)) >= 2
    /\ Len(matched) = 2
    /\ matched[1][3] # matched[2][3]
    /\ choice = Some(matched[2][3])

\* C4: the upstream port is the target's explicit port whenever it has one,
\* whatever the scheme; the scheme's default port is used only without one.
C4_ExplicitPortWins ==
    (HandleRequestDone /\ CreatedUpstream)
        => LET u == choice[1]
           IN upstream[1].port =
                IF u.port # 0 THEN u.port
                ELSE IF u.scheme = "http" THEN DEFAULT_HTTP_PORT
                ELSE DEFAULT_HTTPS_PORT

\* C5: before_routing hooks run in plugin order, each given the request the
\* previous one returned; a hook returning None ends the call with a protocol
\* error before any later hook, any route matching and any upstream use.
C5_BeforeRoutingChain ==
    (op = "handle_request") =>
        /\ \A k \in DOMAIN brCalls :
             /\ brCalls[k][1] = k
             /\ brCalls[k][2] = IF k = 1 THEN pre.request[1] ELSE brCalls[k - 1][3][1]
             /\ brCalls[k][3] = None =>
                  /\ k = Len(brCalls)
                  /\ pc = "idle"
                  /\ exc = Raise("HttpProtocolException", "RoutingAbort")
                  /\ scanned = <<>> /\ matched = <<>> /\ hrCalls = <<>>
                  /\ routed = None
                  /\ ~CreatedUpstream
                  /\ upstream = pre.upstream
                  /\ choice = pre.choice
        /\ (pc # "before_routing" /\ exc.kind # "RoutingAbort")
              => /\ Len(brCalls) = NumPlugins
                 /\ routed = brCalls[NumPlugins][3]

C5_Witness ==
    /\ HandleRequestDone
    /\ Len(brCalls) = 2
    /\ brCalls[1][3] # None /\ brCalls[1][3][1] # pre.request[1]
    /\ brCalls[2][3] = None
    /\ pre.upstream # None

\* C6 as stated: whenever exactly one entry of exactly one plugin matches the
\* (post-hook) path, the target chosen after handle_request is that entry's
\* resolution.
C6_SingleMatchAlways ==
    (HandleRequestDone /\ routed # None
        /\ Cardinality(MatchingEntries(routed[1].path)) = 1)
        => LET ij == CHOOSE e \in MatchingEntries(routed[1].path) : TRUE
           IN /\ choice # None
              /\ choice[1] \in Resolutions(plugins[ij[1]][ij[2]])
              /\ matched = << <<ij[1], ij[2], choice[1]>> >>

\* C6 amended: ... provided route matching reaches that entry (every
\* before_routing hook passed and no invalid entry was scanned before it).
C6_SingleMatchReached ==
    (op = "handle_request" /\ routed # None
        /\ Cardinality(MatchingEntries(routed[1].path)) = 1)
        => LET ij == CHOOSE e \in MatchingEntries(routed[1].path) : TRUE
               e == plugins[ij[1]][ij[2]]
           IN InSeq(ij, scanned) =>
                /\ choice # None
                /\ choice[1] \in Resolutions(e)
                /\ matched = << <<ij[1], ij[2], choice[1]>> >>
                /\ IF e.type = "str"
                   THEN hrCalls = << <<ij[1], routed[1], e.pat, choice[1]>> >>
                   ELSE hrCalls = <<>>

C6_Witness ==
    /\ HandleRequestDone /\ routed # None
    /\ Cardinality(MatchingEntries(routed[1].path)) = 1
    /\ Len(hrCalls) = 1
    /\ choice = Some(hrCalls[1][4])
    /\ routed # pre.request

\* C7: every error kind of handle_request surfaces as HttpProtocolException.
C7_AllErrorsAreProtocolErrors ==
    (HandleRequestDone /\ exc.kind \in ErrorKinds)
        => exc.type = "HttpProtocolException"

\* C8: a refused connection fails the call with a protocol error carrying the
\* target hostname and the resolved port; the request path is not rewritten
\* and nothing is queued on the upstream connection.
C8_ConnectionRefused ==
    (HandleRequestDone /\ io = "refused")
        => /\ exc.type = "HttpProtocolException"
           /\ exc.kind = "UpstreamConnectionRefused"
           /\ exc.host = choice[1].hostname
           /\ exc.port = port
           /\ upstream # None
           /\ upstream[1].port = port /\ upstream[1].host = choice[1].hostname
           /\ request = routed
           /\ upstream[1].buf = <<>>
           /\ ~InSeq("queue", upstream[1].log)

C8_Witness ==
    /\ HandleRequestDone /\ io = "refused"
    /\ exc.host = "h2" /\ exc.port = DEFAULT_HTTPS_PORT
    /\ routed[1].path # choice[1].remainder

\* C9: a successful handle_request connects, then upgrades to TLS iff the
\* target's scheme is https (to the target hostname), then queues the
\* request; an https target without a port is connected on the default
\* https port.
C9_ConnectWrapQueue ==
    (HandleRequestDone /\ exc = NoExc)
        => LET u == choice[1]
               c == upstream[1]
           IN /\ CreatedUpstream /\ upstream # None
              /\ c.host = u.hostname
              /\ c.log = IF u.scheme = "https"
                         THEN <<"connect", "wrap", "queue">>
                         ELSE <<"connect", "queue">>
              /\ c.sni = IF u.scheme = "https" THEN u.hostname ELSE ""
              /\ c.connected
              /\ Len(c.buf) = 1
              /\ (u.scheme = "https" /\ u.port = 0) => c.port = DEFAULT_HTTPS_PORT

C9_Witness ==
    /\ HandleRequestDone /\ exc = NoExc
    /\ choice[1].scheme = "https" /\ choice[1].port = 0
    /\ upstream[1].port = DEFAULT_HTTPS_PORT
    /\ upstream[1].log = <<"connect", "wrap", "queue">>

\* C10: on_client_connection_close never raises; an open upstream is closed
\* exactly once and the reference cleared; with the upstream absent or already
\* closed, and on every call after the first, nothing is closed or changed.
C10_CloseIdempotent ==
    (op = "on_client_connection_close")
        => /\ exc = NoExc
           /\ (pre.upstream # None /\ pre.upstream[1].connected
                  /\ ~pre.upstream[1].closed)
                => (upstream = None /\ closes = pre.closes + 1)
           /\ (pre.upstream = None \/ pre.upstream[1].closed \/ counts.close >= 2)
                => /\ upstream = pre.upstream
                   /\ closes = pre.closes
                   /\ choice = pre.choice
                   /\ orphans = pre.orphans
           /\ closes <= 1

C10_Witness ==
    /\ op = "on_client_connection_close"
    /\ counts.close = 2
    /\ closes = 1
    /\ upstream = None

C10_WitnessAlreadyClosed ==
    /\ op = "on_client_connection_close"
    /\ pre.upstream # None /\ pre.upstream[1].closed
    /\ upstream = pre.upstream

\* C3: if any after_handling_upstream_data hook returns None, exactly the raw
\* chunk is queued to the client, whatever earlier hooks returned; nothing
\* rebuilt is queued and no later plugin's hook is called for the chunk.
C3_PassThrough ==
    (op = "handle_upstream_data"
        /\ \E k \in DOMAIN ahCalls : ahCalls[k][3] = None)
        => /\ clientQ = Append(pre.clientQ, raw)
           /\ ahCalls[Len(ahCalls)][3] = None
           /\ \A k \in DOMAIN ahCalls :
                /\ ahCalls[k][1] = k
                /\ k < Len(ahCalls) => ahCalls[k][3] # None

C3_Witness ==
    /\ op = "handle_upstream_data"
    /\ Len(ahCalls) = 2
    /\ ahCalls[1][3] # None /\ ahCalls[1][3][1] # ahCalls[1][2]
    /\ ahCalls[2][3] = None
    /\ clientQ = <<raw>>
    /\ raw # <<StatusLine(ahCalls[2][2].code)>> \o ahCalls[2][2].body

\* ------------------------------------------------------ access logging
\* C11: on_access_log calls every plugin's on_access_log hook, in plugin
\* order, and merges what the hooks return into the emitted context.
C11_PluginOverridesMerged ==
    op = "on_access_log"
        => /\ Len(alCalls) = NumPlugins
           /\ \A k \in DOMAIN alCalls : alCalls[k] = k

\* ------------------------------------------------- upstream data, again
\* A response after n hooks replaced it.
RECURSIVE Edited(_, _)
Edited(response, n) ==
    IF n = 0 THEN response
    ELSE Edited([code |-> 404, body |-> response.body \o <<"X">>], n - 1)

\* The items one chunk can become: itself, or the serialization of its
\* parsed response after some hooks replaced it.
ItemsOf(chunk) ==
    {chunk} \cup
    { <<StatusLine(Edited(Parse(chunk), n).code)>> \o Edited(Parse(chunk), n).body :
        n \in 0..NumPlugins }

\* C12: the client queue receives exactly one item per chunk, in arrival
\* order: the k-th item comes from the k-th chunk, nothing is dropped,
\* merged, duplicated or reordered.
C12_OneItemPerChunk ==
    /\ Len(rawLog) = counts.chunk
    /\ Len(clientQ) = Len(rawLog)
    /\ \A k \in DOMAIN clientQ : clientQ[k] \in ItemsOf(rawLog[k])
    /\ op = "handle_upstream_data"
        => /\ rawLog[Len(rawLog)] = raw
           /\ SubSeq(clientQ, 1, Len(clientQ) - 1) = pre.clientQ

C12_Witness ==
    /\ Len(rawLog) = 2
    /\ rawLog[1] # rawLog[2]
    /\ clientQ[1] = rawLog[1]
    /\ clientQ[2] # rawLog[2]
    /\ clientQ[1] \notin ItemsOf(rawLog[2])
    /\ clientQ[2] \notin ItemsOf(rawLog[1])

\* All the chunks received so far, as one byte sequence.
RECURSIVE Flatten(_)
Flatten(chunks) ==
    IF chunks = <<>> THEN <<>> ELSE Head(chunks) \o Flatten(Tail(chunks))

\* C13: the response handed to the hooks on the k-th call is the parse of
\* chunks 1..k together, not of the k-th chunk alone.
C13_ParserAccumulates ==
    (op = "handle_upstream_data" /\ ahCalls # <<>>)
        => ahCalls[1][2] = Parse(Flatten(rawLog))

\* C17: when no hook returns None, every plugin's hook is called exactly
\* once, in plugin order, the first with the parsed response and each later
\* one with the previous hook's result, and the one item queued is the
\* serialization of the last hook's result.
C17_FullChainRebuilt ==
    (op = "handle_upstream_data"
        /\ \A k \in DOMAIN ahCalls : ahCalls[k][3] # None)
        => /\ Len(ahCalls) = NumPlugins
           /\ ahCalls[1][2] = Parse(raw)
           /\ \A k \in DOMAIN ahCalls :
                /\ ahCalls[k][1] = k
                /\ k > 1 => ahCalls[k][2] = ahCalls[k - 1][3][1]
           /\ LET last == ahCalls[NumPlugins][3][1]
              IN clientQ = pre.clientQ \o << <<StatusLine(last.code)>> \o last.body >>

C17_Witness ==
    /\ op = "handle_upstream_data"
    /\ Len(ahCalls) = 2
    /\ ahCalls[1][3] # None /\ ahCalls[2][3] # None
    /\ ahCalls[1][3][1] # ahCalls[1][2]
    /\ ahCalls[2][3][1] # ahCalls[2][2]
    /\ clientQ[Len(clientQ)] # raw
    /\ Len(clientQ) = Len(pre.clientQ) + 1

\* ------------------------------------------------ upstream connections
\* The upstream connections the handler created that are open.
OpenUpstreams ==
    orphans + (IF upstream # None /\ IsOpen(upstream[1]) THEN 1 ELSE 0)

\* C14: at most one upstream connection created by the handler is open at
\* any time, and none is open after on_client_connection_close.
C14_AtMostOneOpenUpstream ==
    /\ OpenUpstreams <= 1
    /\ op = "on_client_connection_close" => OpenUpstreams = 0

\* ------------------------------------------------------- routing, again
\* C15: within one plugin's route list the entries are evaluated in order
\* and the scan of that plugin stops at its first matching entry: that entry
\* gives the plugin's resolution and no later entry of the plugin is
\* evaluated.
C15_StopAtFirstMatch ==
    (op = "handle_request" /\ routed # None)
        => /\ \A a, b \in DOMAIN scanned :
                (a < b /\ scanned[a][1] = scanned[b][1])
                    => scanned[a][2] < scanned[b][2]
           /\ \A i \in MatchingPlugins(routed[1].path) :
                LET f == FirstMatchOf(i, routed[1].path)
                IN InSeq(<<i, f>>, scanned)
                    => /\ \A k \in 1..MaxRoutes :
                            InSeq(<<i, k>>, scanned) <=> k <= f
                       /\ \E m \in DOMAIN matched :
                            /\ matched[m][1] = i /\ matched[m][2] = f
                            /\ matched[m][3] \in Resolutions(plugins[i][f])
                       /\ \A m \in DOMAIN matched :
                            matched[m][1] = i => matched[m][2] = f

C15_Witness ==
    /\ HandleRequestDone /\ routed # None
    /\ \E i \in MatchingPlugins(routed[1].path) :
         /\ FirstMatchOf(i, routed[1].path) = 1
         /\ <<i, 2>> \in MatchingEntries(routed[1].path)
         /\ InSeq(<<i, 1>>, scanned)
         /\ ~InSeq(<<i, 2>>, scanned)
         /\ \E m \in DOMAIN matched : matched[m][1] = i /\ matched[m][2] = 1

\* C16: a successful handle_request queues exactly one message upstream, the
\* serialization of the request the last before_routing hook returned with
\* its path replaced by the chosen target's remainder; the entries that
\* matched were matched against that request's path.
C16_RewrittenRequestQueued ==
    (HandleRequestDone /\ exc = NoExc)
        => /\ routed = brCalls[NumPlugins][3]
           /\ upstream # None /\ CreatedUpstream
           /\ upstream[1].buf = << <<"REQ", choice[1].remainder, routed[1].rest>> >>
           /\ \A m \in DOMAIN matched :
                PatternMatches(plugins[matched[m][1]][matched[m][2]], routed[1].path)

C16_Witness ==
    /\ HandleRequestDone /\ exc = NoExc
    /\ routed # pre.request
    /\ routed[1].path # pre.request[1].path
    /\ matched # <<>>
    /\ ~PatternMatches(plugins[matched[1][1]][matched[1][2]], pre.request[1].path)
    /\ upstream[1].buf[1][2] # routed[1].path
    /\ upstream[1].buf[1][3] = routed[1].rest

\* The exchange being logged is the last handle_request; the target chosen
\* for it is the resolution of its last match.
C18_Expected ==
    IF matched # <<>>
    THEN UrlStr(matched[Len(matched)][3])
    ELSE None

\* C18: the logged upstream_proxy_pass is the string form of the target chosen
\* for the exchange being logged, and None when none was chosen for it.
C18_LogsTargetOfExchange ==
    (op = "on_access_log" /\ counts.req > 0)
        => logged[1].upstream_proxy_pass = C18_Expected

\* handle_request failed before the upstream connection is created.
FailedBeforeUpstream ==
    /\ HandleRequestDone
    /\ exc.kind \in {"RoutingAbort", "InvalidRouteEntry", "NoRouteMatched"}

\* C19 as stated: a handle_request that fails before the upstream connection
\* is created leaves the chosen target and the upstream reference as they
\* were before the call.
C19_FailureLeavesState ==
    FailedBeforeUpstream => (choice = pre.choice /\ upstream = pre.upstream)

\* The scanned entries whose pattern matches the post-hook path.
ScannedMatches ==
    { k \in DOMAIN scanned :
        PatternMatches(plugins[scanned[k][1]][scanned[k][2]], routed[1].path) }

\* C19 amended: such a call creates no connection and leaves the upstream
\* reference as it was; the chosen target is as it was too unless an entry
\* matched before the failure, and then it is the last such match's
\* resolution.
C19_FailureFrame ==
    FailedBeforeUpstream
        => /\ upstream = pre.upstream
           /\ ~CreatedUpstream
           /\ orphans = pre.orphans
           /\ IF routed # None /\ ScannedMatches # {}
              THEN LET k == CHOOSE x \in ScannedMatches :
                                \A y \in ScannedMatches : y <= x
                   IN /\ exc.kind = "InvalidRouteEntry"
                      /\ choice # None
                      /\ choice[1] \in Resolutions(plugins[scanned[k][1]][scanned[k][2]])
              ELSE choice = pre.choice

C19_Witness ==
    /\ FailedBeforeUpstream
    /\ exc.kind = "InvalidRouteEntry"
    /\ matched # <<>>
    /\ choice # pre.choice
    /\ pre.choice # None
    /\ pre.upstream # None /\ upstream = pre.upstream

\* ------------------------------------------------------------- routes()
\* The number of patterns of the plugins before plugin i.
RECURSIVE PatternsBefore(_)
PatternsBefore(i) ==
    IF i <= 1 THEN 0 ELSE PatternsBefore(i - 1) + Len(regexes[i - 1])

\* C20: routes() returns, for each plugin in order and each of its patterns
\* in order, an (HTTP, pattern) entry immediately followed by an
\* (HTTPS, pattern) entry, and nothing else.
C20_RouteTable ==
    op = "routes"
        => /\ Len(regexes) = NumPlugins
           /\ Len(table) = 2 * PatternsBefore(NumPlugins + 1)
           /\ \A i \in 1..NumPlugins : \A j \in DOMAIN regexes[i] :
                LET n == 2 * (PatternsBefore(i) + j)
                IN /\ table[n - 1] = <<"HTTP", regexes[i][j]>>
                   /\ table[n] = <<"HTTPS", regexes[i][j]>>

C20_Witness ==
    /\ op = "routes"
    /\ Len(regexes[1]) = 2 /\ Len(regexes[2]) = 1
    /\ regexes[1][1] # regexes[1][2]
    /\ Len(table) = 6
    /\ table[5] = <<"HTTP", regexes[2][1]>>

====
